---- MODULE Spec2Model ----
(***************************************************************************)
(* Hierarchical DAG layout engine of vizstack (xnode).                     *)
(*                                                                         *)
(*   - the Edge Slicer: GraphProperties and getEdgeSegments of             *)
(*     components/layouts/DagLayout/layout_archive.js, one action per      *)
(*     iteration of its forEach over the edges (specification SpecSlice);  *)
(*   - the Resize Feedback Loop: the DagLayout component of                *)
(*     core/interaction/events.js together with layoutElkGraph             *)
(*     (specification SpecLoop);                                           *)
(*   - the construction of the Hierarchy Index: the constructor of         *)
(*     GraphProperties with _setHierarchyHeight (specification             *)
(*     SpecHeights);                                                       *)
(*   - the whole pipeline: layout(), getElkGraph, layoutElkGraph and the   *)
(*     reducers elkGraphToNodeTransforms and elkGraphToEdgeTransforms      *)
(*     (specification SpecLayout);                                         *)
(*   - the interaction manager: InteractionSet and InteractionManager      *)
(*     (specification SpecInteract).                                       *)
(***************************************************************************)
EXTENDS Integers, Sequences, FiniteSets, TLC

\* ------------------------------------------------------------------ bounds
\* Number of nodes of the hierarchy handed to the slicer.
MaxNodes == 4
\* Largest number of edges handed to the slicer.
MaxEdges == 2
\* Largest number of solver invocations one DagLayout instance issues.
MaxSolves == 2
\* Number of frames the call stack of the JavaScript engine holds.
MaxStack == 6
\* Largest number of layout() calls made for one graph.
MaxCalls == 2
\* Largest number of InteractionSet objects of one InteractionManager.
MaxSets == 4
\* Largest number of handlers the application subscribes.
MaxHandlers == 2
\* Number of viewers that can register with the InteractionManager.
MaxViewers == 2

\* ------------------------------------------------------- program constants
\* The root context: `null` in GraphProperties._nodeParents, kRootNode as the
\* key of edgeSegments.
Root == 0

Nodes == 1..MaxNodes
Containers == Nodes \cup {Root}

\* An id that no node of the graph has.
Unknown == MaxNodes + 1

\* JavaScript `undefined` as a node id: what this._nodeParents[id] is for an
\* id that is not a key of _nodeParents.
UndefinedId == -2

\* The keys the Proxy objects of getEdgeSegments can be read with.
ProxyKeys == Containers \cup {Unknown, UndefinedId}

\* JavaScript `undefined` as a port side.
Undefined == "undefined"

\* events.js
kNodeInitialWidth == 100000
kNodeResizeTolerance == 5

VARIABLES
    \* ---- GraphProperties (inputs of the slicer)
    nodeParents,        \* _nodeParents: node id -> parent id, Root for null
    orientations,       \* node.orientation of every node
    edges,              \* the edges the forEach of getEdgeSegments has met, in order
    \* ---- getEdgeSegments
    outPorts, inPorts,  \* node id -> list of port sides
    edgeSegments,       \* container id -> list of ELK edges
    sliceLog,           \* history: per edge, the port counts before it was sliced
                        \* and the cursor pairs the while loop went through
    \* ---- DagLayout (the Resize Feedback Loop)
    phase,              \* "constructed" | "mounted" | "unmounted"
    state,              \* this.state: [shouldLayout, nodes, geometry]
    inflight,           \* the elk.layout() promises that are not settled yet
    solveCount,         \* number of layout() calls made so far
    lastEvent,          \* history: the handler that ran last, with its arguments
    reports,            \* the (width, height) pairs the measurements of this run report
    accepted,           \* history: per leaf, the size of the last report that
                        \* _onNodeResize did not ignore
    \* ---- new GraphProperties(nodes, edges)
    nodeChildren,       \* node.children of every node handed to the constructor
    hierarchy,          \* outcome of the constructor: [status, heights]
    \* ---- layout(nodes, edges, callback)
    elkSeed,            \* which deterministic solver elk.layout is
    call,               \* the layout() call in progress: [status, solved], solved
                        \* being the ELK nodes elk.layout was invoked on
    calls,              \* number of layout() calls made
    published,          \* the arguments of every callback invocation, in order
    \* ---- InteractionManager
    interactionSets,    \* manager.interactionSets: the InteractionSet objects, in
                        \* order of construction: [constraints, subscriptions]
    viewers,            \* the keys of manager.viewers
    viewerInteractionSets,  \* manager.viewerInteractionSets, in key order:
                        \* [viewerId, sets], sets being indices of interactionSets
    handlers,           \* number of handlers the application has subscribed
    lastCall,           \* history: the last call made on the manager or on a set,
                        \* with the handler invocations a publish made
    \* ---- the upward walks of GraphProperties and ELKEdgeSegment
    walk                \* history: the last walk made, its arguments and results

sliceVars == <<nodeParents, orientations, edges, outPorts, inPorts, edgeSegments, sliceLog>>

loopVars == <<phase, state, inflight, solveCount, lastEvent, reports, accepted>>

heightVars == <<nodeChildren, hierarchy>>

pipeVars == <<elkSeed, call, calls, published>>

interactVars == <<interactionSets, viewers, viewerInteractionSets, handlers, lastCall>>

walkVars == <<walk>>

vars == <<sliceVars, loopVars, heightVars, pipeVars, interactVars, walkVars>>

\* No GraphProperties object is under construction.
NoHeights ==
    /\ nodeChildren = <<>>
    /\ hierarchy = [status |-> "none"]

\* layout() is not called.
NoPipeline ==
    /\ elkSeed = 0
    /\ call = [status |-> "none"]
    /\ calls = 0
    /\ published = <<>>

\* No walk is made.
NoWalk == walk = [op |-> "none"]

\* No InteractionManager is constructed.
NoInteraction ==
    /\ interactionSets = <<>>
    /\ viewers = {}
    /\ viewerInteractionSets = <<>>
    /\ handlers = 0
    /\ lastCall = [op |-> "none"]

\* ------------------------------------------------------- GraphProperties

getParent(nodeId) == IF nodeId \in Nodes THEN nodeParents[nodeId] ELSE UndefinedId

children(nodeId) == {c \in Nodes : nodeParents[c] = nodeId}

Max(S) == CHOOSE x \in S : \A y \in S : y <= x

\* _setHierarchyHeight: 0 for a leaf, else 1 + the largest height of a child.
RECURSIVE getHierarchyHeight(_)
getHierarchyHeight(nodeId) ==
    IF children(nodeId) = {} THEN 0
    ELSE Max({getHierarchyHeight(c) : c \in children(nodeId)}) + 1

getOrientation(nodeId) ==
    IF nodeId = Root THEN "vertical" ELSE orientations[nodeId]

\* this._nodes[nodeId].orientation is a TypeError when nodeId is no node.
orientationThrows(nodeId) == nodeId \notin Containers

\* getHierarchyHeight(a) > getHierarchyHeight(b): the height of an id that is
\* no node is `undefined`, and a comparison with `undefined` is false.
heightGreater(a, b) ==
    /\ a \in Nodes
    /\ b \in Nodes
    /\ getHierarchyHeight(a) > getHierarchyHeight(b)

sideMap(side) ==
    CASE side = "left"  -> "WEST"
      [] side = "right" -> "EAST"
      [] side = "up"    -> "NORTH"
      [] side = "down"  -> "SOUTH"
      [] OTHER          -> Undefined

getStartSide(edge) == sideMap(edge.startSide)
getEndSide(edge) == sideMap(edge.endSide)
getStartId(edge) == edge.startId
getEndId(edge) == edge.endId

inMap(orientation) == IF orientation = "horizontal" THEN "WEST" ELSE "SOUTH"
outMap(orientation) == IF orientation = "horizontal" THEN "EAST" ELSE "NORTH"

\* ------------------------------------------------------- ports and segments

\* `${node}_${portNum}` + (isInput ? 'i' : 'o')
getPortIdOneBased(node, portNum, isInput) ==
    [node |-> node, portNum |-> portNum + 1, dir |-> IF isInput THEN "i" ELSE "o"]

getPortId(node, portNum, isInput) ==
    [node |-> node, portNum |-> portNum, dir |-> IF isInput THEN "i" ELSE "o"]

\* ports[node].push(side)
pushPortReusing(ports, node, side) ==
    IF Len(ports[node]) > 0 THEN ports ELSE [ports EXCEPT ![node] = Append(@, side)]

pushPort(ports, node, side) == [ports EXCEPT ![node] = Append(@, side)]

\* The while loop of the ELKEdgeSegment constructor: the container that owns
\* a segment between startNodeId and endNodeId.
segmentParentOfStart(startNodeId, endNodeId) == nodeParents[startNodeId]

RECURSIVE segmentParent(_, _)
segmentParent(startNodeId, endNodeId) ==
    IF startNodeId = endNodeId THEN startNodeId
    ELSE IF startNodeId = Root
            \/ (endNodeId # Root /\ heightGreater(startNodeId, endNodeId))
         THEN segmentParent(startNodeId, getParent(endNodeId))
    ELSE IF endNodeId = Root \/ heightGreater(endNodeId, startNodeId)
         THEN segmentParent(getParent(startNodeId), endNodeId)
    ELSE segmentParent(getParent(startNodeId), getParent(endNodeId))

NoIndex == -1

ELKEdgeSegment(edgeId, startNodeId, startPortId, endNodeId, endPortId) ==
    [index        |-> NoIndex,
     edgeId       |-> edgeId,
     startPortId  |-> startPortId,
     endPortId    |-> endPortId,
     parentNodeId |-> segmentParent(startNodeId, endNodeId)]

toElkEdge(seg) ==
    [sources |-> seg.startPortId,
     targets |-> seg.endPortId,
     edgeId  |-> seg.edgeId,
     index   |-> seg.index,
     z       |-> 0]

Reverse(s) == [i \in 1..Len(s) |-> s[Len(s) + 1 - i]]

\* fromEdgeSegments.concat(toEdgeSegments.reverse())
chainOrderNoTo(from, to) == from

chainOrderNoReverse(from, to) == from \o to

chainOrder(from, to) == from \o Reverse(to)

\* The forEach of lines 372-375: segment i gets index i (0-based) and is
\* pushed onto the list of the container that owns it.
RECURSIVE pushSegments(_, _, _)
pushSegments(es, chain, i) ==
    IF i > Len(chain) THEN es
    ELSE LET seg == [chain[i] EXCEPT !.index = i - 1]
             own == seg.parentNodeId
         IN  pushSegments([es EXCEPT ![own] = Append(@, toElkEdge(seg))],
                          chain, i + 1)

\* ------------------------------------------------------- getEdgeSegments
\* The state of one forEach iteration is the record
\*   [startId, endId, fromEdgeSegments, toEdgeSegments, firstInPortAssigned,
\*    outPorts, inPorts, edgeSegments, cursors, thrown]
\* where cursors lists the (startId, endId) pairs the while loop has seen and
\* thrown tells that the iteration ended with a TypeError.

\* The guard of line 359.
isClosingAtTop(s, e) == getParent(s) = getParent(e) \/ getParent(s) = Root

isClosingWhenEndAtTop(s, e) == getParent(s) = getParent(e) \/ getParent(e) = Root

isClosing(s, e) == getParent(s) = getParent(e)

\* The guard of lines 380-385.
advancesEndOnTie(s, e) ==
    \/ getParent(s) = Root
    \/ /\ getParent(e) # Root
       /\ ~heightGreater(getParent(e), getParent(s))

advancesEnd(s, e) ==
    \/ getParent(s) = Root
    \/ /\ getParent(e) # Root
       /\ heightGreater(getParent(s), getParent(e))

\* Lines 371 and 400 read the orientation of the parent of endId once an in
\* port has been assigned.
inPortSideThrows(st) ==
    st.firstInPortAssigned /\ orientationThrows(getParent(st.endId))

\* The side pushed onto inPorts[endId] at lines 371 and 400.
inPortSide(edge, st) ==
    IF st.firstInPortAssigned THEN inMap(getOrientation(getParent(st.endId)))
    ELSE getEndSide(edge)

\* Lines 324-330: the locals of one forEach iteration, and the out port of
\* the edge's source.
beginEdge(edge, outP, inP, es) ==
    [startId |-> getStartId(edge),
     endId |-> getEndId(edge),
     fromEdgeSegments |-> <<>>,
     toEdgeSegments |-> <<>>,
     firstInPortAssigned |-> FALSE,
     outPorts |-> pushPort(outP, getStartId(edge), getStartSide(edge)),
     inPorts |-> inP,
     edgeSegments |-> es,
     cursors |-> << <<getStartId(edge), getEndId(edge)>> >>,
     thrown |-> FALSE]

\* Lines 359-377: the cursors share a parent; the closing segment.
closeEdge(edge, st) ==
    LET seg == ELKEdgeSegment(edge.id, st.startId,
                   getPortId(st.startId, Len(st.outPorts[st.startId]) - 1, FALSE),
                   st.endId,
                   getPortId(st.endId, Len(st.inPorts[st.endId]), TRUE))
        from == Append(st.fromEdgeSegments, seg)
    IN  IF inPortSideThrows(st) THEN [st EXCEPT !.thrown = TRUE]
        ELSE
        [st EXCEPT
            !.fromEdgeSegments = from,
            !.inPorts = pushPort(st.inPorts, st.endId, inPortSide(edge, st)),
            !.edgeSegments = pushSegments(st.edgeSegments,
                                          chainOrder(from, st.toEdgeSegments), 1)]

\* Lines 380-404: a segment from a port on the parent of endId down to endId.
advanceEnd(edge, st) ==
    LET p == getParent(st.endId)
        seg == ELKEdgeSegment(edge.id, p,
                   getPortId(p, Len(st.inPorts[p]), TRUE),
                   st.endId,
                   getPortId(st.endId, Len(st.inPorts[st.endId]), TRUE))
    IN  IF inPortSideThrows(st) THEN [st EXCEPT !.thrown = TRUE]
        ELSE
        [st EXCEPT
            !.toEdgeSegments = Append(@, seg),
            !.inPorts = pushPort(st.inPorts, st.endId, inPortSide(edge, st)),
            !.firstInPortAssigned = TRUE,
            !.endId = p,
            !.cursors = Append(@, <<st.startId, p>>)]

\* Lines 405-422: a segment from startId up to a port on its parent.
advanceStart(edge, st) ==
    LET p == getParent(st.startId)
        seg == ELKEdgeSegment(edge.id, st.startId,
                   getPortId(st.startId, Len(st.outPorts[st.startId]) - 1, FALSE),
                   p,
                   getPortId(p, Len(st.outPorts[p]), FALSE))
    IN  IF orientationThrows(p) THEN [st EXCEPT !.thrown = TRUE]
        ELSE
        [st EXCEPT
            !.fromEdgeSegments = Append(@, seg),
            !.startId = p,
            !.outPorts = pushPort(st.outPorts, p, outMap(getOrientation(p))),
            !.cursors = Append(@, <<p, st.endId>>)]

\* Lines 356-423: while (true) { ... }
RECURSIVE sliceLoop(_, _)
sliceLoop(edge, st) ==
    IF st.thrown THEN st
    ELSE IF isClosing(st.startId, st.endId) THEN closeEdge(edge, st)
    ELSE IF advancesEnd(st.startId, st.endId) THEN sliceLoop(edge, advanceEnd(edge, st))
    ELSE sliceLoop(edge, advanceStart(edge, st))

portCounts == [out |-> [n \in Nodes |-> Len(outPorts[n])],
               in  |-> [n \in Nodes |-> Len(inPorts[n])]]

\* ------------------------------------------------------- inputs

\* Acyclic single-parent hierarchies. Nodes are numbered breadth first (a
\* container before its contents, the contents of an earlier container before
\* those of a later one); every forest has such a numbering, and the slicer
\* never looks at the ids themselves.
Hierarchies ==
    {f \in [Nodes -> Containers] :
        /\ \A n \in Nodes : f[n] < n
        /\ \A n \in Nodes \ {MaxNodes} : f[n] <= f[n + 1]}

Orientations == {[n \in Nodes |-> IF n % 2 = 1 THEN "horizontal" ELSE "vertical"]}

EdgeSpecs == [startId : Nodes, endId : Nodes,
              startSide : {Undefined}, endSide : {Undefined}]

\* ------------------------------------------------------- actions

\* One iteration of graph.getEdgeIds().forEach (lines 320-424): the next edge
\* of the graph is sliced. The edges are met one at a time, so the edge list
\* is drawn edge by edge.
SliceEdge ==
    /\ Len(edges) < MaxEdges
    /\ \E spec \in EdgeSpecs :
         LET edge == [id |-> Len(edges) + 1,
                      startId |-> spec.startId, endId |-> spec.endId,
                      startSide |-> spec.startSide, endSide |-> spec.endSide]
             st == sliceLoop(edge, beginEdge(edge, outPorts, inPorts, edgeSegments))
         IN  /\ edges' = Append(edges, edge)
             /\ outPorts' = st.outPorts
             /\ inPorts' = st.inPorts
             /\ edgeSegments' = st.edgeSegments
             /\ sliceLog' = Append(sliceLog, [ports |-> portCounts, cursors |-> st.cursors])
    /\ UNCHANGED <<nodeParents, orientations>>
    /\ UNCHANGED <<loopVars, interactVars, walkVars, heightVars, pipeVars>>

\* No DagLayout instance exists.
NoLoop ==
    /\ phase = "none"
    /\ state = [shouldLayout |-> FALSE]
    /\ inflight = {}
    /\ solveCount = 0
    /\ lastEvent = [op |-> "none"]
    /\ reports = {}
    /\ accepted = <<>>

InitSlice ==
    /\ NoInteraction
    /\ NoWalk
    /\ NoLoop
    /\ NoHeights
    /\ NoPipeline
    /\ nodeParents \in Hierarchies
    /\ orientations \in Orientations
    /\ edges = <<>>
    /\ outPorts = [n \in Nodes |-> <<>>]
    /\ inPorts = [n \in Nodes |-> <<>>]
    /\ edgeSegments = [c \in Containers |-> <<>>]
    /\ sliceLog = <<>>

NextSlice == SliceEdge

SpecSlice == InitSlice /\ [][NextSlice]_vars

\* The slicer with edges that name a preferred side (DagEdgeLayoutSpec
\* startSide, endSide) or none.
SidedEdgeSpecs == [startId : Nodes, endId : Nodes,
                   startSide : {Undefined, "left"}, endSide : {Undefined, "down"}]

SliceSidedEdge ==
    /\ Len(edges) < MaxEdges
    /\ \E spec \in SidedEdgeSpecs :
         LET edge == [id |-> Len(edges) + 1,
                      startId |-> spec.startId, endId |-> spec.endId,
                      startSide |-> spec.startSide, endSide |-> spec.endSide]
             st == sliceLoop(edge, beginEdge(edge, outPorts, inPorts, edgeSegments))
         IN  /\ edges' = Append(edges, edge)
             /\ outPorts' = st.outPorts
             /\ inPorts' = st.inPorts
             /\ edgeSegments' = st.edgeSegments
             /\ sliceLog' = Append(sliceLog, [ports |-> portCounts, cursors |-> st.cursors])
    /\ UNCHANGED <<nodeParents, orientations>>
    /\ UNCHANGED <<loopVars, interactVars, walkVars, heightVars, pipeVars>>

NextSliceSided == SliceSidedEdge

SpecSliceSided == InitSlice /\ [][NextSliceSided]_vars

\* ------------------------------------------------------- the upward walks

\* getHierarchyHeight(a) < getHierarchyHeight(b): false when either is
\* `undefined`, the height of null.
heightLess(a, b) ==
    /\ a \in Nodes
    /\ b \in Nodes
    /\ getHierarchyHeight(a) < getHierarchyHeight(b)

\* GraphProperties.getCommonAncestor (lines 53-64).
RECURSIVE getCommonAncestorTallerFirst(_, _)
getCommonAncestorTallerFirst(nodeId1, nodeId2) ==
    IF nodeId1 = nodeId2 THEN nodeId1
    ELSE IF nodeId2 = Root \/ heightGreater(nodeId1, nodeId2)
         THEN getCommonAncestorTallerFirst(getParent(nodeId1), nodeId2)
         ELSE getCommonAncestorTallerFirst(nodeId1, getParent(nodeId2))

RECURSIVE getCommonAncestor(_, _)
getCommonAncestor(nodeId1, nodeId2) ==
    IF nodeId1 = nodeId2 THEN nodeId1
    ELSE IF nodeId2 = Root \/ heightLess(nodeId1, nodeId2)
         THEN getCommonAncestor(getParent(nodeId1), nodeId2)
         ELSE getCommonAncestor(nodeId1, getParent(nodeId2))

\* A hierarchy, and no edge sliced.
InitWalk ==
    /\ NoInteraction
    /\ NoLoop
    /\ NoHeights
    /\ NoPipeline
    /\ nodeParents \in Hierarchies
    /\ orientations \in Orientations
    /\ edges = <<>>
    /\ outPorts = [n \in Nodes |-> <<>>]
    /\ inPorts = [n \in Nodes |-> <<>>]
    /\ edgeSegments = [c \in Containers |-> <<>>]
    /\ sliceLog = <<>>
    /\ walk = [op |-> "none"]

\* graph.getCommonAncestor(nodeId1, nodeId2), and the owner the constructor
\* of ELKEdgeSegment (lines 204-231) computes for a segment between the two
\* nodes.
WalkUp ==
    \E nodeId1 \in Nodes, nodeId2 \in Nodes :
        /\ walk' = [op |-> "walk", nodeId1 |-> nodeId1, nodeId2 |-> nodeId2,
                    commonAncestor |-> getCommonAncestor(nodeId1, nodeId2),
                    parentNodeId |-> segmentParent(nodeId1, nodeId2)]
        /\ UNCHANGED <<sliceVars, loopVars, heightVars, pipeVars, interactVars>>

NextWalk == WalkUp

SpecWalk == InitWalk /\ [][NextWalk]_vars

\* =======================================================================
\* The Resize Feedback Loop: class DagLayout of core/interaction/events.js
\* =======================================================================

\* this.props.nodes: a container "c" that holds the leaf "a", and a root-level
\* leaf "b".
LoopNodes == {"c", "a", "b"}
propsChildren == [n \in LoopNodes |-> IF n = "c" THEN {"a"} ELSE {}]
Leaves == {n \in LoopNodes : propsChildren[n] = {}}

\* A JavaScript number is the one-element tuple <<v>>; `undefined` is <<>>.
NoValue == <<>>
Num(v) == <<v>>

\* JavaScript truthiness of a number or undefined.
Truthy(x) == x # NoValue /\ x[1] # 0

Abs(v) == IF v < 0 THEN -v ELSE v

\* The (width, height) pairs a measurement reports.
Measurements == {<<20, 20>>, <<23, 22>>, <<20, 30>>, <<20, 0>>}

\* The (width, height) pairs of a measurement that goes wrong: some of them
\* hold a negative number.
AnomalousMeasurements == {<<20, 20>>, <<20, 30>>, <<20, -3>>, <<-4, 20>>}

\* this.state before componentDidMount (lines 617-626).
EmptyNodes == [n \in {} |-> NoValue]
NoGeometry == [kind |-> "empty", of |-> EmptyNodes]

\* The positions, z values, edge points, ordering and canvas size that
\* componentDidMount writes: nothing is laid out (lines 637-666).
UnlaidGeometry == [kind |-> "unlaid", of |-> EmptyNodes]

\* elk.layout(graph): the external solver is a function of the graph it is
\* given. The width and height of a leaf are those it was given; a container
\* is made as wide as its children together and as high as the highest.
RECURSIVE SumWidths(_, _)
SumWidths(nodes, S) ==
    IF S = {} THEN 0
    ELSE LET n == CHOOSE m \in S : TRUE
         IN  nodes[n].width[1] + SumWidths(nodes, S \ {n})

elkLayout(nodes) ==
    [n \in LoopNodes |->
        IF propsChildren[n] = {} THEN [width |-> nodes[n].width, height |-> nodes[n].height]
        ELSE [width  |-> Num(SumWidths(nodes, propsChildren[n])),
              height |-> Num(Max({nodes[m].height[1] : m \in propsChildren[n]}))]]

\* The positions, z values, edge points, ordering and canvas size the callback
\* of _layoutGraph writes (lines 743-752): those the solver computed for the
\* node sizes it was handed.
LaidGeometry(nodes) == [kind |-> "laid", of |-> nodes]

\* Lines 674-682.
shouldComponentUpdateAlways(nextState) == TRUE

shouldComponentUpdate(nextState) ==
    \A n \in DOMAIN nextState.nodes :
        propsChildren[n] = {} => Truthy(nextState.nodes[n].height)

\* Lines 708-713: the resize is within the tolerance.
withinToleranceExact(prev, width, height) ==
    /\ prev.width # NoValue
    /\ prev.height # NoValue
    /\ prev.width[1] = width
    /\ prev.height[1] = height

withinTolerance(prev, width, height) ==
    /\ prev.width # NoValue
    /\ prev.height # NoValue
    /\ Abs(prev.width[1] - width) < kNodeResizeTolerance
    /\ Abs(prev.height[1] - height) < kNodeResizeTolerance

\* this.setState of a React component: the state of a component that has been
\* unmounted is not updated.
setStateAlways(nextState) == nextState

setState(nextState) == IF phase = "unmounted" THEN state ELSE nextState

\* Whether the update to nextState re-renders and componentDidUpdate
\* (lines 684-692) calls _layoutGraph.
rendersAndLayoutsUnguarded(nextState) ==
    /\ phase # "unmounted"
    /\ nextState.shouldLayout

rendersAndLayouts(nextState) ==
    /\ phase # "unmounted"
    /\ shouldComponentUpdate(nextState)
    /\ nextState.shouldLayout

\* An update of the state to setState(nextState), followed by
\* shouldComponentUpdate, render and componentDidUpdate; `pending` are the
\* promises outstanding when the update is made. _layoutGraph (lines 728-757)
\* calls layout() with the node sizes of the new state, and layoutElkGraph
\* (layout_archive.js lines 531-548) leaves the promise of elk.layout behind.
update(nextState, pending) ==
    /\ state' = setState(nextState)
    /\ IF rendersAndLayouts(setState(nextState))
       THEN /\ solveCount < MaxSolves
            /\ solveCount' = solveCount + 1
            /\ inflight' = pending \cup {[id |-> solveCount + 1,
                                           nodes |-> setState(nextState).nodes]}
       ELSE /\ solveCount' = solveCount
            /\ inflight' = pending

\* The slicer is not part of this specification.
NoSlice ==
    /\ nodeParents = [n \in Nodes |-> Root]
    /\ orientations = [n \in Nodes |-> "vertical"]
    /\ edges = <<>>
    /\ outPorts = [n \in Nodes |-> <<>>]
    /\ inPorts = [n \in Nodes |-> <<>>]
    /\ edgeSegments = [c \in Containers |-> <<>>]
    /\ sliceLog = <<>>

\* Lines 615-627: the constructor.
InitLoop ==
    /\ NoInteraction
    /\ NoWalk
    /\ NoSlice
    /\ NoHeights
    /\ NoPipeline
    /\ phase = "constructed"
    /\ state = [shouldLayout |-> FALSE, nodes |-> EmptyNodes, geometry |-> NoGeometry]
    /\ inflight = {}
    /\ solveCount = 0
    /\ lastEvent = [op |-> "constructor"]
    /\ reports = Measurements
    /\ accepted = [n \in Leaves |-> [width |-> NoValue, height |-> NoValue]]

\* Lines 629-672: componentDidMount and the forced render.
ComponentDidMount ==
    /\ phase = "constructed"
    /\ phase' = "mounted"
    /\ state' = [shouldLayout |-> FALSE,
                 nodes |-> [n \in LoopNodes |->
                               [width |-> Num(kNodeInitialWidth), height |-> NoValue]],
                 geometry |-> UnlaidGeometry]
    /\ lastEvent' = [op |-> "componentDidMount"]
    /\ UNCHANGED <<inflight, solveCount>>
    /\ UNCHANGED <<sliceVars, heightVars, pipeVars, interactVars, walkVars, reports, accepted>>

\* Lines 701-722: a leaf reports its measured size.
OnNodeResize(nodeId, width, height) ==
    /\ phase = "mounted"
    /\ lastEvent' = [op |-> "_onNodeResize",
                     ignored |-> IF ~withinTolerance(state.nodes[nodeId], width, height)
                                 THEN "no"
                                 ELSE IF state.nodes[nodeId] =
                                            [width |-> Num(width), height |-> Num(height)]
                                      THEN "same size" ELSE "near size"]
    /\ phase' = phase
    /\ UNCHANGED <<sliceVars, heightVars, pipeVars, interactVars, walkVars, reports>>
    /\ accepted' = IF withinTolerance(state.nodes[nodeId], width, height)
                   THEN accepted
                   ELSE [accepted EXCEPT
                            ![nodeId] = [width |-> Num(width), height |-> Num(height)]]
    /\ IF withinTolerance(state.nodes[nodeId], width, height)
       THEN UNCHANGED <<state, inflight, solveCount>>
       ELSE update([state EXCEPT
                       !.nodes[nodeId] = [width |-> Num(width), height |-> Num(height)],
                       !.shouldLayout = TRUE],
                   inflight)

\* Lines 735-754 (and layout_archive.js lines 539-545): elk.layout resolves
\* and the callback of _layoutGraph stores the result.
SolveDone(solve) ==
    /\ solve \in inflight
    /\ lastEvent' = [op |-> "layoutCallback"]
    /\ phase' = phase
    /\ UNCHANGED <<sliceVars, heightVars, pipeVars, interactVars, walkVars, reports, accepted>>
    /\ update([shouldLayout |-> FALSE,
               nodes |-> elkLayout(solve.nodes),
               geometry |-> LaidGeometry(solve.nodes)],
              inflight \ {solve})

\* layout_archive.js line 546: elk.layout rejects, or the callback throws;
\* .catch(console.error).
SolveFail(solve) ==
    /\ solve \in inflight
    /\ lastEvent' = [op |-> "layoutError"]
    /\ inflight' = inflight \ {solve}
    /\ UNCHANGED <<phase, state, solveCount>>
    /\ UNCHANGED <<sliceVars, heightVars, pipeVars, interactVars, walkVars, reports, accepted>>

\* React unmounts the component; DagLayout has no componentWillUnmount.
Unmount ==
    /\ phase = "mounted"
    /\ phase' = "unmounted"
    /\ lastEvent' = [op |-> "unmount"]
    /\ UNCHANGED <<state, inflight, solveCount>>
    /\ UNCHANGED <<sliceVars, heightVars, pipeVars, interactVars, walkVars, reports, accepted>>

Resize == \E n \in Leaves, m \in reports : OnNodeResize(n, m[1], m[2])
Resolve == \E solve \in inflight : SolveDone(solve)
Reject == \E solve \in inflight : SolveFail(solve)

NextLoop == ComponentDidMount \/ Resize \/ Resolve \/ Reject \/ Unmount

SpecLoop == InitLoop /\ [][NextLoop]_vars

\* The loop with a solver whose promise is eventually settled: a call of
\* elk.layout (layout_archive.js line 539) that stays outstanding eventually
\* resolves, unless it is rejected first.
SpecLoopFair == InitLoop /\ [][NextLoop]_vars /\ WF_vars(Resolve)

\* The loop with a solver none of whose calls fails.
NextLoopResolving == ComponentDidMount \/ Resize \/ Resolve \/ Unmount

SpecLoopResolving == InitLoop /\ [][NextLoopResolving]_vars

\* The same component with measurements that go wrong.
InitLoopAnomalous ==
    /\ NoInteraction
    /\ NoWalk
    /\ NoSlice
    /\ NoHeights
    /\ NoPipeline
    /\ phase = "constructed"
    /\ state = [shouldLayout |-> FALSE, nodes |-> EmptyNodes, geometry |-> NoGeometry]
    /\ inflight = {}
    /\ solveCount = 0
    /\ lastEvent = [op |-> "constructor"]
    /\ reports = AnomalousMeasurements
    /\ accepted = [n \in Leaves |-> [width |-> NoValue, height |-> NoValue]]

SpecLoopAnomalous == InitLoopAnomalous /\ [][NextLoop]_vars

\* =======================================================================
\* Construction of the Hierarchy Index: new GraphProperties(nodes, edges)
\* =======================================================================

\* Math.max of a list that holds `undefined`.
NaN == -1

\* Line 37: nodeId in this._nodeHierarchyHeights. `stack` lists the node ids
\* of the calls of _setHierarchyHeight that have not returned.
alreadySetOrActive(nodeId, memo, stack) ==
    \/ nodeId \in DOMAIN memo
    \/ \E i \in 1..Len(stack) : stack[i] = nodeId

alreadySet(nodeId, memo, stack) == nodeId \in DOMAIN memo

\* this._nodeHierarchyHeights[childId]
heightOrUndefined(memo, childId) ==
    IF childId \in DOMAIN memo THEN memo[childId] ELSE NaN

\* Lines 49-50: Math.max(...children.map(...)) + 1
maxPlusOne(hs) == IF NaN \in hs THEN NaN ELSE Max(hs) + 1

\* Lines 36-51. The result is the record [memo, thrown]: the heights set so
\* far and whether the call ended with the RangeError the engine throws when
\* the call stack is exhausted. Lines 45-47, children.forEach, are
\* setChildrenHeights: an exception ends the forEach.
RECURSIVE setHierarchyHeight(_, _, _)
RECURSIVE setChildrenHeights(_, _, _, _)
setHierarchyHeight(nodeId, memo, stack) ==
    IF Len(stack) >= MaxStack THEN [memo |-> memo, thrown |-> TRUE]
    ELSE IF alreadySet(nodeId, memo, stack) THEN [memo |-> memo, thrown |-> FALSE]
    ELSE IF Len(nodeChildren[nodeId]) = 0
         THEN [memo |-> (nodeId :> 0) @@ memo, thrown |-> FALSE]
    ELSE LET kids == nodeChildren[nodeId]
             r == setChildrenHeights(kids, 1, memo, Append(stack, nodeId))
             hs == {heightOrUndefined(r.memo, kids[i]) : i \in 1..Len(kids)}
         IN  IF r.thrown THEN r
             ELSE [memo |-> (nodeId :> maxPlusOne(hs)) @@ r.memo, thrown |-> FALSE]

setChildrenHeights(kids, i, memo, stack) ==
    IF i > Len(kids) THEN [memo |-> memo, thrown |-> FALSE]
    ELSE LET r == setHierarchyHeight(kids[i], memo, stack)
         IN  IF r.thrown THEN r ELSE setChildrenHeights(kids, i + 1, r.memo, stack)

\* Lines 19-22: nodes.forEach(({ id }) => this._setHierarchyHeight(id)).
RECURSIVE setAllHeights(_, _)
setAllHeights(i, memo) ==
    IF i > MaxNodes THEN [memo |-> memo, thrown |-> FALSE]
    ELSE LET r == setHierarchyHeight(i, memo, <<>>)
         IN  IF r.thrown THEN r ELSE setAllHeights(i + 1, r.memo)

\* The ids of S in ascending order.
RECURSIVE Ascending(_)
Ascending(S) ==
    IF S = {} THEN <<>>
    ELSE LET m == CHOOSE x \in S : \A y \in S : x <= y
         IN  <<m>> \o Ascending(S \ {m})

\* The children arrays of the nodes handed to the constructor: every node is
\* listed as a child of at most one node, which may be itself or one of its
\* own descendants.
ChildrenArrays ==
    {[n \in Nodes |-> Ascending({c \in Nodes : listedBy[c] = n})] :
        listedBy \in [Nodes -> Containers]}

\* The slicer and the feedback loop are not part of this specification.
InitHeights ==
    /\ NoInteraction
    /\ NoWalk
    /\ NoSlice
    /\ NoLoop
    /\ NoPipeline
    /\ nodeChildren \in ChildrenArrays
    /\ hierarchy = [status |-> "pending"]

\* Lines 5-34: the constructor. It returns the object with its heights, or
\* ends with the exception _setHierarchyHeight threw.
Construct ==
    /\ hierarchy.status = "pending"
    /\ LET r == setAllHeights(1, <<>>)
       IN  hierarchy' = IF r.thrown THEN [status |-> "RangeError"]
                        ELSE [status |-> "constructed", heights |-> r.memo]
    /\ UNCHANGED nodeChildren
    /\ UNCHANGED <<sliceVars, loopVars, interactVars, walkVars, pipeVars>>

NextHeights == Construct

SpecHeights == InitHeights /\ [][NextHeights]_vars

\* =======================================================================
\* The pipeline: layout(nodes, edges, callback) of layout_archive.js, with
\* the callback of DagLayout._layoutGraph
\* =======================================================================

\* ---- inputs

PipelineEdgeSpecs ==
    [startId : Nodes \cup {Unknown}, endId : Nodes \cup {Unknown},
     startSide : {Undefined}, endSide : {Undefined}]

EdgeRank(spec) == spec.startId * (MaxNodes + 2) + spec.endId

\* The edge arrays of k edges; the edges of an array are different and listed
\* in the order of their endpoints.
RECURSIVE EdgeArrays(_)
EdgeArrays(k) ==
    IF k = 0 THEN {<<>>}
    ELSE UNION {{Append(l, spec) :
                    spec \in {sp \in PipelineEdgeSpecs :
                                \A i \in 1..(k - 1) : EdgeRank(l[i]) < EdgeRank(sp)}} :
                l \in EdgeArrays(k - 1)}

\* edges.forEach((edge) => (this._edges[edge.id] = edge)): the id of an edge
\* is its position.
withIds(l) ==
    [i \in 1..Len(l) |-> [id |-> i, startId |-> l[i].startId, endId |-> l[i].endId,
                          startSide |-> l[i].startSide, endSide |-> l[i].endSide]]

PipelineEdges == {withIds(l) : l \in UNION {EdgeArrays(k) : k \in 0..MaxEdges}}

\* The deterministic solvers elk.layout can be.
ElkSeeds == {0, 1}

\* ---- getElkGraph

\* The objects behind the Proxy of outPorts and of inPorts when
\* getEdgeSegments starts (lines 306-319).
emptyProxyStale == outPorts

emptyProxy == [k \in ProxyKeys |-> <<>>]

\* Lines 320-424: the forEach over all edges. An exception ends it.
RECURSIVE sliceEdges(_, _, _, _)
sliceEdges(i, outP, inP, es) ==
    IF i > Len(edges)
    THEN [outPorts |-> outP, inPorts |-> inP, edgeSegments |-> es, thrown |-> FALSE]
    ELSE LET st == sliceLoop(edges[i], beginEdge(edges[i], outP, inP, es))
         IN  IF st.thrown
             THEN [outPorts |-> outP, inPorts |-> inP, edgeSegments |-> es, thrown |-> TRUE]
             ELSE sliceEdges(i + 1, st.outPorts, st.inPorts, st.edgeSegments)

\* Lines 298-427.
getEdgeSegments ==
    sliceEdges(1, emptyProxy, emptyProxy, [k \in ProxyKeys |-> <<>>])

\* Lines 143-147 and 162: the children of an ELK node, in the order of the
\* nodes array.
elkChildren(elkNode) == Ascending({n \in Nodes : nodeParents[n] = elkNode})

\* Line 465: notElk.z
elkZPositive(nodeId) == getHierarchyHeight(nodeId)

elkZ(nodeId) == -getHierarchyHeight(nodeId)

\* ---- elk.layout: the external solver, a function of the graph it is given

\* x, y, width and height the solver writes into an ELK node; x and y are
\* relative to the node's parent.
elkNodeLayout(nodeId) ==
    [x |-> 10 * nodeId + elkSeed, y |-> 3 * nodeId + 1,
     width |-> 20 + nodeId, height |-> 10 + nodeId]

\* sections[0] the solver writes into an ELK edge; the points are relative
\* to the node that holds the edge. bendPoints may be missing.
elkSection(edge) ==
    [startPoint |-> [x |-> 100 * (edge.index + 1) + edge.sources.portNum,
                     y |-> 7 * edge.edgeId],
     bendPoints |-> IF (edge.index + elkSeed) % 2 = 1
                    THEN << [x |-> 100 * (edge.index + 1) + 25, y |-> 7 * edge.edgeId + 2] >>
                    ELSE <<>>,
     endPoint |-> [x |-> 100 * (edge.index + 1) + 50 + edge.targets.portNum,
                   y |-> 7 * edge.edgeId + 5]]

\* ---- the reducers

\* Lines 878-881 and 803-806: the offset handed down to a child.
childOffsetLocal(offset, x, y) == [x |-> x, y |-> y]

childOffset(offset, x, y) == [x |-> x + offset.x, y |-> y + offset.y]

\* Lines 867-884. `nodes` maps the ids met so far to their transforms.
RECURSIVE elkGraphToNodeTransformsRecurse(_, _, _)
RECURSIVE nodeTransformsLoop(_, _, _, _)
elkGraphToNodeTransformsRecurse(elkNode, nodes, offset) ==
    nodeTransformsLoop(elkChildren(elkNode), 1, nodes, offset)

nodeTransformsLoop(kids, i, nodes, offset) ==
    IF i > Len(kids) THEN nodes
    ELSE LET id == kids[i]
             l == elkNodeLayout(id)
             node == [x |-> l.x + offset.x, y |-> l.y + offset.y, z |-> elkZ(id),
                      width |-> l.width, height |-> l.height]
             below == elkGraphToNodeTransformsRecurse(id, (id :> node) @@ nodes,
                                                      childOffset(offset, l.x, l.y))
         IN  nodeTransformsLoop(kids, i + 1, below, offset)

\* Lines 850-852.
elkGraphToNodeTransforms ==
    elkGraphToNodeTransformsRecurse(Root, <<>>, [x |-> 0, y |-> 0])

\* Lines 824-835.
elkEdgeToPointArray(edge, offset) ==
    LET sec == elkSection(edge)
        move(pt) == [x |-> pt.x + offset.x, y |-> pt.y + offset.y]
    IN  <<move(sec.startPoint)>>
        \o [i \in 1..Len(sec.bendPoints) |-> move(sec.bendPoints[i])]
        \o <<move(sec.endPoint)>>

\* Lines 784-809. `edgeGroups` maps an edge id to its group [z, edgeSlices].
RECURSIVE elkGraphToEdgeGroupsRecurse(_, _, _)
RECURSIVE edgeGroupsOfEdges(_, _, _, _)
RECURSIVE edgeGroupsOfChildren(_, _, _, _)
elkGraphToEdgeGroupsRecurse(elkNode, edgeGroups, offset) ==
    edgeGroupsOfChildren(elkChildren(elkNode), 1,
                         edgeGroupsOfEdges(edgeSegments[elkNode], 1, edgeGroups, offset),
                         offset)

\* Lines 785-800.
edgeGroupsOfEdges(elkEdges, i, edgeGroups, offset) ==
    IF i > Len(elkEdges) THEN edgeGroups
    ELSE LET edge == elkEdges[i]
             id == edge.edgeId
             slice == [points |-> elkEdgeToPointArray(edge, offset), order |-> edge.index]
             group == IF id \in DOMAIN edgeGroups THEN edgeGroups[id]
                      ELSE [z |-> edge.z, edgeSlices |-> <<>>]
         IN  edgeGroupsOfEdges(elkEdges, i + 1,
                 (id :> [group EXCEPT !.edgeSlices = Append(@, slice)]) @@ edgeGroups,
                 offset)

\* Lines 801-807.
edgeGroupsOfChildren(kids, i, edgeGroups, offset) ==
    IF i > Len(kids) THEN edgeGroups
    ELSE LET l == elkNodeLayout(kids[i])
         IN  edgeGroupsOfChildren(kids, i + 1,
                 elkGraphToEdgeGroupsRecurse(kids[i], edgeGroups,
                                             childOffset(offset, l.x, l.y)),
                 offset)

\* Lines 767-769.
elkGraphToEdgeGroups == elkGraphToEdgeGroupsRecurse(Root, <<>>, [x |-> 0, y |-> 0])

\* Array.prototype.sort with the comparator a.key - b.key; equal keys keep
\* their order.
RECURSIVE insertByKey(_, _)
insertByKey(sorted, item) ==
    IF sorted = <<>> THEN <<item>>
    ELSE IF sorted[Len(sorted)].key <= item.key THEN Append(sorted, item)
    ELSE Append(insertByKey(SubSeq(sorted, 1, Len(sorted) - 1), item), sorted[Len(sorted)])

RECURSIVE sortByKeyFrom(_, _, _)
sortByKeyFrom(items, i, sorted) ==
    IF i > Len(items) THEN sorted
    ELSE sortByKeyFrom(items, i + 1, insertByKey(sorted, items[i]))

sortByKey(items) == sortByKeyFrom(items, 1, <<>>)

\* Lines 720-722: the slices of a group by ascending order.
sortSlicesNot(edgeSlices) == edgeSlices

sortSlices(edgeSlices) ==
    LET keyed == [i \in 1..Len(edgeSlices) |->
                     [key |-> edgeSlices[i].order, item |-> edgeSlices[i]]]
        sorted == sortByKey(keyed)
    IN  [i \in 1..Len(sorted) |-> sorted[i].item]

\* Lines 724-730: all points but the first of every slice.
RECURSIVE pushLaterPoints(_, _, _)
pushLaterPoints(newEdge, edgeGroupSorted, i) ==
    IF i > Len(edgeGroupSorted) THEN newEdge
    ELSE pushLaterPoints(newEdge \o Tail(edgeGroupSorted[i].points), edgeGroupSorted, i + 1)

\* Lines 719-735: the transform of one group.
edgeTransform(edgeGroup) ==
    LET edgeGroupSorted == sortSlices(edgeGroup.edgeSlices)
    IN  [points |-> pushLaterPoints(<<edgeGroupSorted[1].points[1]>>, edgeGroupSorted, 1),
         z |-> edgeGroup.z]

\* Lines 716-741. Line 737 is a TypeError when an edge has no group.
elkGraphToEdgeTransforms ==
    LET edgeGroups == elkGraphToEdgeGroups
    IN  IF \E i \in 1..Len(edges) : edges[i].id \notin DOMAIN edgeGroups
        THEN [thrown |-> TRUE]
        ELSE [thrown |-> FALSE,
              edges |-> [i \in 1..Len(edges) |-> edgeTransform(edgeGroups[edges[i].id])]]

\* events.js lines 737-739 and 746-749: the elements by ascending z.
orderingOf(nodes, edgeTransforms) ==
    LET elements ==
            [i \in 1..MaxNodes |-> [key |-> nodes[i].z, item |-> [type |-> "node", id |-> i]]]
            \o [i \in 1..Len(edgeTransforms) |->
                   [key |-> edgeTransforms[i].z, item |-> [type |-> "edge", id |-> i]]]
        sorted == sortByKey(elements)
    IN  [i \in 1..Len(sorted) |-> sorted[i].item]

\* The ELK nodes elk.layout is invoked on in one pass, in order.
\* layoutElkGraph (line 539) hands the whole graph, the root context, to one
\* call; the call of layoutElkGraphRecurse is commented out (line 547).
RECURSIVE containersUpTo(_)
containersUpTo(height) ==
    IF height = 0 THEN <<>>
    ELSE containersUpTo(height - 1)
         \o Ascending({n \in Nodes : /\ children(n) # {}
                                     /\ getHierarchyHeight(n) = height})

layoutElkGraphPerContainer == containersUpTo(MaxNodes) \o <<Root>>

layoutElkGraph == <<Root>>

\* ---- actions

InitLayout ==
    /\ NoInteraction
    /\ NoWalk
    /\ NoLoop
    /\ NoHeights
    /\ nodeParents \in Hierarchies
    /\ orientations \in Orientations
    /\ edges \in PipelineEdges
    /\ outPorts = [k \in ProxyKeys |-> <<>>]
    /\ inPorts = [k \in ProxyKeys |-> <<>>]
    /\ edgeSegments = [k \in ProxyKeys |-> <<>>]
    /\ sliceLog = <<>>
    /\ elkSeed \in ElkSeeds
    /\ call = [status |-> "ready"]
    /\ calls = 0
    /\ published = <<>>

\* Lines 103-109 with getElkGraph (lines 128-165): the ELK graph is built and
\* handed to elk.layout (line 539), or the exception of getEdgeSegments
\* leaves layout().
Layout ==
    /\ call.status \in {"ready", "threw", "logged", "published"}
    /\ calls < MaxCalls
    /\ calls' = calls + 1
    /\ LET r == getEdgeSegments
       IN  IF r.thrown
           THEN /\ call' = [status |-> "threw"]
                /\ UNCHANGED <<outPorts, inPorts, edgeSegments>>
           ELSE /\ call' = [status |-> "solving", solved |-> layoutElkGraph]
                /\ outPorts' = r.outPorts
                /\ inPorts' = r.inPorts
                /\ edgeSegments' = r.edgeSegments
    /\ UNCHANGED <<nodeParents, orientations, edges, sliceLog, elkSeed, published>>
    /\ UNCHANGED <<loopVars, interactVars, walkVars, heightVars>>

\* Lines 539-545: elk.layout resolves; the transforms are computed and
\* handed to the callback (events.js lines 735-754). An exception of a
\* reducer goes to .catch(console.error) and the callback is not called.
LayoutResolved ==
    /\ call.status = "solving"
    /\ LET nodes == elkGraphToNodeTransforms
           et == elkGraphToEdgeTransforms
       IN  IF et.thrown
           THEN /\ call' = [status |-> "logged", solved |-> call.solved]
                /\ published' = published
           ELSE /\ call' = [status |-> "published", solved |-> call.solved]
                /\ published' = Append(published,
                       [nodes |-> nodes,
                        edges |-> et.edges,
                        ordering |-> orderingOf(nodes, et.edges),
                        elkGraph |-> [outPorts |-> outPorts, inPorts |-> inPorts,
                                      edgeSegments |-> edgeSegments]])
    /\ UNCHANGED <<sliceVars, elkSeed, calls>>
    /\ UNCHANGED <<loopVars, interactVars, walkVars, heightVars>>

\* Line 546: elk.layout rejects; .catch(console.error).
LayoutRejected ==
    /\ call.status = "solving"
    /\ call' = [status |-> "logged", solved |-> call.solved]
    /\ UNCHANGED <<sliceVars, elkSeed, calls, published>>
    /\ UNCHANGED <<loopVars, interactVars, walkVars, heightVars>>

NextLayout == Layout \/ LayoutResolved \/ LayoutRejected

SpecLayout == InitLayout /\ [][NextLayout]_vars

\* =======================================================================
\* The interaction manager: InteractionSet and InteractionManager.
\* =======================================================================

\* The viewers that can register: viewer ids.
Viewers == 1..MaxViewers

\* `undefined` as a viewer: the parent of a top-level viewer, the viewerId of
\* a message that has none.
NoViewer == 0

\* The handles of the viewers (ViewerInfo): the type and the metadata value for
\* the key "foo" of the view model, and the parent viewer. Every third viewer
\* is a layout that is the parent of text primitives, of which the first
\* carries the tag.
viewerType(v) == IF v % 3 = 0 THEN "FlowLayout" ELSE "TextPrimitive"
viewerMeta(v) == IF v % 3 = 1 THEN "bar" ELSE "undefined"
viewerParent(v) == IF v % 3 = 0 THEN NoViewer ELSE 3

\* The constraint functions that the constraint methods hand to filter.
typeConstraint(type) == [kind |-> "withType", value |-> type, set |-> 0]
metaConstraint(value) == [kind |-> "withMeta", value |-> value, set |-> 0]
parentInConstraint(setIdx) == [kind |-> "withParentIn", value |-> "", set |-> setIdx]

\* The two handlers _addDefaultInteractions subscribes; the handlers of the
\* application are numbered from 1.
DefaultMouseOver == -1
DefaultMouseOut == -2

SubscribedEvents == {"mouseOver", "hover"}
PublishedEvents == {"mouseOver", "mouseOut"}

\* viewer.satisfiesConstraints(constraints): every constraint function returns
\* true for the viewer. The closure of withParentIn reads the constraints
\* the other set has when it is evaluated.
RECURSIVE satisfiesConstraints(_, _)
satisfies(v, constraint) ==
    CASE constraint.kind = "withType" -> viewerType(v) = constraint.value
      [] constraint.kind = "withMeta" -> viewerMeta(v) = constraint.value
      [] constraint.kind = "withParentIn" ->
            /\ viewerParent(v) # NoViewer
            /\ satisfiesConstraints(viewerParent(v),
                                    interactionSets[constraint.set].constraints)

satisfiesConstraints(v, constraints) ==
    \A i \in 1..Len(constraints) : satisfies(v, constraints[i])

\* new InteractionSet(manager, constraints): the set is pushed on
\* manager.interactionSets.
newInteractionSet(sets, constraints) ==
    Append(sets, [constraints |-> constraints, subscriptions |-> <<>>])

\* InteractionSet.filter(fn) on the set at setIdx.
filter(setIdx, fn) ==
    newInteractionSet(
        [interactionSets EXCEPT ![setIdx].constraints = Append(@, fn)],
        Append(interactionSets[setIdx].constraints, fn) \o <<fn>>)

\* The sets the application holds: those getAllComponents and the constraint
\* methods returned. The set of _addDefaultInteractions is local to it.
HeldSets == 2..Len(interactionSets)

\* this.interactionSets.filter(...) of registerViewer over the first n sets:
\* the sets whose constraints the viewer satisfies, in order.
RECURSIVE setsSatisfiedBy(_, _)
setsSatisfiedBy(v, n) ==
    IF n = 0 THEN <<>>
    ELSE IF satisfiesConstraints(v, interactionSets[n].constraints)
         THEN Append(setsSatisfiedBy(v, n - 1), n)
         ELSE setsSatisfiedBy(v, n - 1)

\* The position of the key viewerId in viewerInteractionSets, 0 if it is
\* not a key.
keyPosition(v) ==
    IF \E k \in 1..Len(viewerInteractionSets) : viewerInteractionSets[k].viewerId = v
    THEN CHOOSE k \in 1..Len(viewerInteractionSets) :
             viewerInteractionSets[k].viewerId = v
    ELSE 0

\* delete object[key]: the entries of the other keys, in order.
RECURSIVE deleteKey(_, _)
deleteKey(entries, v) ==
    IF entries = <<>> THEN <<>>
    ELSE IF Head(entries).viewerId = v THEN deleteKey(Tail(entries), v)
         ELSE <<Head(entries)>> \o deleteKey(Tail(entries), v)

\* One invocation of a handler, and one call of receiveEvent.
handlerInvoked(eventName, handler, subscriber, publisher) ==
    [kind |-> "handler", eventName |-> eventName, handler |-> handler,
     subscriber |-> subscriber, publisher |-> publisher]

eventReceived(eventName, viewerId, publisher) ==
    [kind |-> "receiveEvent", eventName |-> eventName, handler |-> 0,
     subscriber |-> viewerId, publisher |-> publisher]

\* InteractionManager.publish (lines 211-236): the invocations it makes, in
\* order. The handlers of _addDefaultInteractions (lines 186-195) publish
\* 'hover' and 'unhover' from within the handler; the handlers of the
\* application make no call on the manager.
RECURSIVE publish(_, _, _)
handlerCalls(handler, subscriber, publisher) ==
    IF handler = DefaultMouseOver /\ subscriber = publisher
    THEN publish("hover", subscriber, publisher)
    ELSE IF handler = DefaultMouseOut /\ subscriber = publisher
         THEN publish("unhover", subscriber, publisher)
         ELSE <<>>

\* Lines 219-225 for the subscriptions from the k-th on.
RECURSIVE publishToSubscriptions(_, _, _, _, _)
publishToSubscriptions(subscriptions, k, eventName, viewerId, publisher) ==
    IF k > Len(subscriptions) THEN <<>>
    ELSE (IF subscriptions[k].eventName = eventName
          THEN <<handlerInvoked(eventName, subscriptions[k].handler, viewerId, publisher)>>
               \o handlerCalls(subscriptions[k].handler, viewerId, publisher)
          ELSE <<>>)
         \o publishToSubscriptions(subscriptions, k + 1, eventName, viewerId, publisher)

\* Lines 217-226 for the sets of one viewer from the j-th on.
RECURSIVE publishToSets(_, _, _, _, _)
publishToSets(sets, j, eventName, viewerId, publisher) ==
    IF j > Len(sets) THEN <<>>
    ELSE publishToSubscriptions(interactionSets[sets[j]].subscriptions, 1,
                                eventName, viewerId, publisher)
         \o publishToSets(sets, j + 1, eventName, viewerId, publisher)

\* Lines 212-227 for the entries of viewerInteractionSets from the i-th on.
RECURSIVE publishToViewers(_, _, _)
publishToViewers(i, eventName, publisher) ==
    IF i > Len(viewerInteractionSets) THEN <<>>
    ELSE publishToSets(viewerInteractionSets[i].sets, 1, eventName,
                       viewerInteractionSets[i].viewerId, publisher)
         \o publishToViewers(i + 1, eventName, publisher)

publish(eventName, messageViewerId, publisher) ==
    publishToViewers(1, eventName, publisher)
    \o (IF messageViewerId # NoViewer /\ messageViewerId \in viewers
        THEN <<eventReceived(eventName, messageViewerId, publisher)>>
        ELSE <<>>)

\* new InteractionManager() (lines 176-196): the set of
\* _addDefaultInteractions with its two subscriptions.
InitInteract ==
    /\ NoWalk
    /\ NoSlice
    /\ NoLoop
    /\ NoHeights
    /\ NoPipeline
    /\ interactionSets =
          <<[constraints |-> <<>>,
             subscriptions |-> <<[eventName |-> "mouseOver", handler |-> DefaultMouseOver],
                                 [eventName |-> "mouseOut", handler |-> DefaultMouseOut]>>]>>
    /\ viewers = {}
    /\ viewerInteractionSets = <<>>
    /\ handlers = 0
    /\ lastCall = [op |-> "constructor"]

\* manager.getAllComponents() (lines 238-240).
GetAllComponents ==
    /\ Len(interactionSets) < MaxSets
    /\ interactionSets' = newInteractionSet(interactionSets, <<>>)
    /\ lastCall' = [op |-> "getAllComponents"]
    /\ UNCHANGED <<viewers, viewerInteractionSets, handlers>>
    /\ UNCHANGED <<sliceVars, loopVars, heightVars, pipeVars, walkVars>>

\* A constraint method (lines 95-130) called on a set the application holds:
\* each is this.filter(fn) with its own fn.
Constrain(setIdx, fn) ==
    /\ Len(interactionSets) < MaxSets
    /\ interactionSets' = filter(setIdx, fn)
    /\ lastCall' = [op |-> "filter", set |-> setIdx, fn |-> fn]
    /\ UNCHANGED <<viewers, viewerInteractionSets, handlers>>
    /\ UNCHANGED <<sliceVars, loopVars, heightVars, pipeVars, walkVars>>

WithType == \E setIdx \in HeldSets : Constrain(setIdx, typeConstraint("TextPrimitive"))
WithMeta == \E setIdx \in HeldSets : Constrain(setIdx, metaConstraint("bar"))
WithParentIn ==
    \E setIdx \in HeldSets, other \in HeldSets :
        Constrain(setIdx, parentInConstraint(other))

\* set.subscribe(eventName, handler) (lines 132-144) with a new handler.
Subscribe ==
    \E setIdx \in HeldSets, eventName \in SubscribedEvents :
        /\ handlers < MaxHandlers
        /\ handlers' = handlers + 1
        /\ interactionSets' =
              [interactionSets EXCEPT ![setIdx].subscriptions =
                  Append(@, [eventName |-> eventName, handler |-> handlers + 1])]
        /\ lastCall' = [op |-> "subscribe", set |-> setIdx]
        /\ UNCHANGED <<viewers, viewerInteractionSets>>
        /\ UNCHANGED <<sliceVars, loopVars, heightVars, pipeVars, walkVars>>

\* manager.registerViewer(viewer) (lines 198-203).
RegisterViewer ==
    \E v \in Viewers :
        /\ viewers' = viewers \cup {v}
        /\ viewerInteractionSets' =
              IF keyPosition(v) = 0
              THEN Append(viewerInteractionSets,
                          [viewerId |-> v,
                           sets |-> setsSatisfiedBy(v, Len(interactionSets))])
              ELSE [viewerInteractionSets EXCEPT ![keyPosition(v)].sets =
                       setsSatisfiedBy(v, Len(interactionSets))]
        /\ lastCall' = [op |-> "registerViewer", viewer |-> v]
        /\ UNCHANGED <<interactionSets, handlers>>
        /\ UNCHANGED <<sliceVars, loopVars, heightVars, pipeVars, walkVars>>

\* manager.unregisterViewer(viewer) (lines 205-208).
UnregisterViewer ==
    \E v \in Viewers :
        /\ viewers' = viewers \ {v}
        /\ viewerInteractionSets' = deleteKey(viewerInteractionSets, v)
        /\ lastCall' = [op |-> "unregisterViewer", viewer |-> v]
        /\ UNCHANGED <<interactionSets, handlers>>
        /\ UNCHANGED <<sliceVars, loopVars, heightVars, pipeVars, walkVars>>

\* manager.publish(eventName, message, publisher) (lines 211-236), the
\* message naming no viewer or the publisher.
Publish ==
    \E eventName \in PublishedEvents, publisher \in Viewers :
      \E messageViewerId \in {NoViewer, publisher} :
        /\ lastCall' = [op |-> "publish", eventName |-> eventName,
                        publisher |-> publisher,
                        invoked |-> publish(eventName, messageViewerId, publisher)]
        /\ UNCHANGED <<interactionSets, viewers, viewerInteractionSets, handlers>>
        /\ UNCHANGED <<sliceVars, loopVars, heightVars, pipeVars, walkVars>>

NextInteract ==
    \/ GetAllComponents
    \/ WithType
    \/ WithMeta
    \/ WithParentIn
    \/ Subscribe
    \/ RegisterViewer
    \/ UnregisterViewer
    \/ Publish

SpecInteract == InitInteract /\ [][NextInteract]_vars

\* =======================================================================
\* Properties of the Edge Slicer (checked under SpecSlice)
\* =======================================================================

EdgeIds == 1..Len(edges)

\* Where the segments of edge e lie: <<container, position in its list>>.
SegmentsOf(e) ==
    {<<c, i>> \in Containers \X (1..(MaxNodes * 2 * MaxEdges)) :
        /\ i <= Len(edgeSegments[c])
        /\ edgeSegments[c][i].edgeId = e}

NumSegments(e) == Cardinality(SegmentsOf(e))

AllSegments == UNION {SegmentsOf(e) : e \in EdgeIds}

SegmentAt(pos) == edgeSegments[pos[1]][pos[2]]

\* The segment of edge e that carries sequence index k.
SegmentWithIndex(e, k) ==
    SegmentAt(CHOOSE pos \in SegmentsOf(e) : SegmentAt(pos).index = k)

RECURSIVE Depth(_)
Depth(n) == IF n = Root THEN 0 ELSE 1 + Depth(nodeParents[n])

RECURSIVE ProperAncestors(_)
ProperAncestors(n) ==
    IF n = Root THEN {} ELSE {nodeParents[n]} \cup ProperAncestors(nodeParents[n])

\* Glossary: the deepest container that contains both endpoints.
LowestCommonAncestor(a, b) ==
    LET common == ProperAncestors(a) \cap ProperAncestors(b)
    IN  CHOOSE x \in common : \A y \in common : Depth(y) <= Depth(x)

Hops(n, ancestor) == Depth(n) - Depth(ancestor)

EdgeLCA(e) == LowestCommonAncestor(edges[e].startId, edges[e].endId)
SourceHops(e) == Hops(edges[e].startId, EdgeLCA(e))
TargetHops(e) == Hops(edges[e].endId, EdgeLCA(e))

\* C1: every edge whose source and target have the same immediate parent is
\* sliced into exactly one segment, and that segment is owned by the common
\* parent (the root context for root-level nodes).
C1_SameParentOneSegmentOwnedByParent ==
    \A e \in EdgeIds :
        nodeParents[edges[e].startId] = nodeParents[edges[e].endId]
        => /\ NumSegments(e) = 1
           /\ \A pos \in SegmentsOf(e) : pos[1] = nodeParents[edges[e].startId]

\* C2 as stated: the number of segments of an edge is the number of hops from
\* the source up to the lowest common ancestor plus the number of hops from
\* the target up to it.
C2_SegmentsEqualHopsSum ==
    \A e \in EdgeIds : NumSegments(e) = SourceHops(e) + TargetHops(e)

\* C2 amended: the number of segments of an edge is one less than the hops
\* from the source up to the lowest common ancestor plus the hops from the
\* target up to it.
C2_SegmentsEqualHopsSumMinusOne ==
    \A e \in EdgeIds : NumSegments(e) = SourceHops(e) + TargetHops(e) - 1

\* An edge that climbs on both sides has been sliced.
C2_Witness ==
    \E e \in EdgeIds : SourceHops(e) >= 2 /\ TargetHops(e) >= 2 /\ NumSegments(e) = 3

SegmentStartNode(pos) == SegmentAt(pos).sources.node
SegmentEndNode(pos) == SegmentAt(pos).targets.node

\* C3: every segment joins two nodes that share an immediate container: they
\* have the same parent, or one is the parent of the other.
C3_SegmentsStayInOneContainer ==
    \A pos \in AllSegments :
        LET a == SegmentStartNode(pos)
            b == SegmentEndNode(pos)
        IN  \/ nodeParents[a] = nodeParents[b]
            \/ nodeParents[a] = b
            \/ nodeParents[b] = a

\* One edge has been sliced into a child-to-parent segment, a parent-to-child
\* segment and a segment between two siblings.
C3_Witness ==
    \E e \in EdgeIds :
        /\ \E pos \in SegmentsOf(e) : nodeParents[SegmentStartNode(pos)] = SegmentEndNode(pos)
        /\ \E pos \in SegmentsOf(e) : nodeParents[SegmentEndNode(pos)] = SegmentStartNode(pos)
        /\ \E pos \in SegmentsOf(e) :
              /\ SegmentStartNode(pos) # SegmentEndNode(pos)
              /\ nodeParents[SegmentStartNode(pos)] = nodeParents[SegmentEndNode(pos)]

\* For D inside root-level C and root-level E (E not C): edge D -> E.
IsChildToRootSiblingEdge(e) ==
    LET d == edges[e].startId
        t == edges[e].endId
    IN  /\ nodeParents[d] # Root
        /\ nodeParents[nodeParents[d]] = Root
        /\ nodeParents[t] = Root
        /\ t # nodeParents[d]

PortsBefore(e) == sliceLog[e].ports
PortsAfter(e) == IF e < Len(edges) THEN sliceLog[e + 1].ports ELSE portCounts

NewOutPorts(e, n) == PortsAfter(e).out[n] - PortsBefore(e).out[n]
NewInPorts(e, n) == PortsAfter(e).in[n] - PortsBefore(e).in[n]

RECURSIVE SumOver(_, _)
SumOver(f, S) ==
    IF S = {} THEN 0
    ELSE LET x == CHOOSE y \in S : TRUE IN f[x] + SumOver(f, S \ {x})

NumNewPorts(e) ==
    SumOver([n \in Nodes |-> NewOutPorts(e, n) + NewInPorts(e, n)], Nodes)

\* The nodes from n up to, and without, the container a.
ChainBelow(n, a) == {x \in ({n} \cup ProperAncestors(n)) : Depth(x) > Depth(a)}

\* C5: slicing an edge into n segments creates exactly n+1 ports: one out
\* port on the source and on each source-side ancestor below the common
\* container, one in port on the target and on each target-side ancestor
\* below it. A sibling edge creates 2 ports; for D -> E with D inside C, C
\* gets exactly one new out port.
C5_PortsCreatedPerEdge ==
    \A e \in EdgeIds :
        /\ NumNewPorts(e) = NumSegments(e) + 1
        /\ \A n \in Nodes :
              /\ NewOutPorts(e, n) =
                    IF n \in ChainBelow(edges[e].startId, EdgeLCA(e)) THEN 1 ELSE 0
              /\ NewInPorts(e, n) =
                    IF n \in ChainBelow(edges[e].endId, EdgeLCA(e)) THEN 1 ELSE 0
        /\ (edges[e].startId # edges[e].endId
            /\ nodeParents[edges[e].startId] = nodeParents[edges[e].endId])
           => NumNewPorts(e) = 2
        /\ IsChildToRootSiblingEdge(e)
           => /\ NewOutPorts(e, nodeParents[edges[e].startId]) = 1
              /\ NewInPorts(e, nodeParents[edges[e].startId]) = 0

\* A second edge has been sliced through nodes that already had ports, and
\* the scenario edge D -> E has been sliced.
C5_Witness ==
    /\ Len(edges) = 2
    /\ NumSegments(2) >= 2
    /\ \E n \in Nodes : PortsBefore(2).out[n] > 0 /\ NewOutPorts(2, n) = 1
    /\ \E n \in Nodes : PortsBefore(2).in[n] > 0 /\ NewInPorts(2, n) = 1
    /\ IsChildToRootSiblingEdge(1)

\* C6: the segments of an edge carry the indices 0..n-1, segment 0 starts at
\* the out port of the edge's source, segment n-1 ends at the in port of the
\* edge's target, and the end port of segment i is the start port of
\* segment i+1.
C6_SegmentsChainedInIndexOrder ==
    \A e \in EdgeIds :
        LET n == NumSegments(e) IN
        /\ n >= 1
        /\ \A k \in 0..(n - 1) :
              Cardinality({pos \in SegmentsOf(e) : SegmentAt(pos).index = k}) = 1
        /\ SegmentWithIndex(e, 0).sources.node = edges[e].startId
        /\ SegmentWithIndex(e, 0).sources.dir = "o"
        /\ SegmentWithIndex(e, n - 1).targets.node = edges[e].endId
        /\ SegmentWithIndex(e, n - 1).targets.dir = "i"
        /\ \A k \in 0..(n - 2) :
              SegmentWithIndex(e, k).targets = SegmentWithIndex(e, k + 1).sources

\* An edge with a source-side segment has been sliced, and after it an edge
\* with at least two target-side segments.
C6_Witness ==
    /\ Len(edges) = 2
    /\ TargetHops(2) >= 3
    /\ NumSegments(2) >= 3
    /\ SourceHops(1) >= 2
    /\ NumSegments(1) >= 2

\* Edge e joins a node and one of the containers it lies in.
IsAncestorEdge(e) ==
    \/ edges[e].startId \in ProperAncestors(edges[e].endId)
    \/ edges[e].endId \in ProperAncestors(edges[e].startId)

\* C13: an edge whose endpoints are ancestor and descendant of each other is
\* rejected and produces no segments.
C13_AncestorEdgeProducesNoSegments ==
    \A e \in EdgeIds : IsAncestorEdge(e) => NumSegments(e) = 0

\* =======================================================================
\* Properties of the Resize Feedback Loop (checked under SpecLoop)
\* =======================================================================

\* C7: a size report whose width and height both differ from the stored
\* width and height of the node by less than the tolerance (5) changes
\* nothing: not the stored sizes, not the published layout, not shouldLayout,
\* and no solve is started.
C7_ReportWithinToleranceIgnored ==
    [][\A n \in Leaves, m \in Measurements :
          (/\ OnNodeResize(n, m[1], m[2])
           /\ state.nodes[n].width # NoValue
           /\ state.nodes[n].height # NoValue
           /\ Abs(state.nodes[n].width[1] - m[1]) < kNodeResizeTolerance
           /\ Abs(state.nodes[n].height[1] - m[2]) < kNodeResizeTolerance)
          => UNCHANGED <<state, inflight, solveCount>>]_vars

\* A settled loop has just been handed a size that differs from the stored
\* one by less than the tolerance.
C7_Witness ==
    /\ phase = "mounted"
    /\ lastEvent.op = "_onNodeResize"
    /\ lastEvent.ignored = "near size"
    /\ ~state.shouldLayout
    /\ state.geometry.kind = "laid"
    /\ inflight = {}

\* C8: the loop never has two solver invocations outstanding at the same
\* time.
C8_AtMostOneSolveOutstanding == Cardinality(inflight) <= 1

C10_SolverFailureKeepsLayoutAndRetries ==
    [][/\ lastEvent'.op = "layoutError"
          => /\ state'.nodes = state.nodes
             /\ state'.geometry = state.geometry
             /\ state'.shouldLayout
       /\ (/\ lastEvent.op = "layoutError"
           /\ lastEvent'.op = "_onNodeResize"
           /\ lastEvent'.ignored = "no")
          => solveCount' = solveCount + 1]_vars

\* The width and the height of a stored node size are positive numbers, as
\* far as they are set.
PositiveSize(size) ==
    /\ size.width # NoValue => size.width[1] > 0
    /\ size.height # NoValue => size.height[1] > 0

\* C14: after a size report with a negative width or height, the size stored
\* for the node is positive, and so is every size of every node handed to
\* the solver.
C14_NegativeReportIsClamped ==
    [][\A n \in Leaves, m \in AnomalousMeasurements :
          (OnNodeResize(n, m[1], m[2]) /\ (m[1] < 0 \/ m[2] < 0))
          => /\ PositiveSize(state'.nodes[n])
             /\ \A solve \in inflight' :
                   \A k \in LoopNodes : PositiveSize(solve.nodes[k])]_vars

\* =======================================================================
\* Properties of the Hierarchy Index (checked under SpecHeights)
\* =======================================================================

\* The nodes reachable from n through at least one and at most k children
\* links.
RECURSIVE ReachableIn(_, _)
ReachableIn(n, k) ==
    IF k = 0 THEN {}
    ELSE LET direct == {nodeChildren[n][i] : i \in 1..Len(nodeChildren[n])}
         IN  direct \cup UNION {ReachableIn(c, k - 1) : c \in direct}

OnCycle(n) == n \in ReachableIn(n, MaxNodes)

HasCycle == \E n \in Nodes : OnCycle(n)

\* C11: when some node is reachable from itself through children links, the
\* construction of GraphProperties ends with an error and returns no
\* heights.
C11_CycleEndsConstructionWithError ==
    (hierarchy.status # "pending" /\ HasCycle)
        => (hierarchy.status = "RangeError" /\ "heights" \notin DOMAIN hierarchy)

\* The construction has ended for a hierarchy in which two different nodes
\* contain each other.
C11_Witness ==
    /\ hierarchy.status = "RangeError"
    /\ \E a, b \in Nodes : a # b /\ b \in ReachableIn(a, 1) /\ a \in ReachableIn(b, 1)

\* =======================================================================
\* Properties of the pipeline (checked under SpecLayout)
\* =======================================================================

HasUnknownEndpoint ==
    \E i \in 1..Len(edges) : edges[i].startId = Unknown \/ edges[i].endId = Unknown

\* C12: for a graph with an edge whose source or target is no node, every
\* layout() call ends with an error thrown to its caller, and the callback is
\* never invoked.
C12_UnknownEndpointIsFatal ==
    (HasUnknownEndpoint /\ calls >= 1)
        => (call.status = "threw" /\ published = <<>>)

SelfAndAncestors(n) == ({n} \cup ProperAncestors(n)) \ {Root}

\* The sum of the container-local positions the solver assigned to the
\* container c and to the containers c lies in; (0, 0) for the root context.
AccumulatedOffset(c) ==
    [x |-> SumOver([a \in Nodes |-> elkNodeLayout(a).x], SelfAndAncestors(c)),
     y |-> SumOver([a \in Nodes |-> elkNodeLayout(a).y], SelfAndAncestors(c))]

\* C16: the published position of every node is its container-local
\* position plus the container-local positions of all of its ancestors.
C16_NodePositionIsSumOfAncestorOffsets ==
    \A i \in 1..Len(published) : \A n \in Nodes :
        /\ published[i].nodes[n].x = AccumulatedOffset(n).x
        /\ published[i].nodes[n].y = AccumulatedOffset(n).y

\* A layout of a hierarchy without edges that is three levels deep has been
\* published.
C16_Witness ==
    /\ Len(published) >= 1
    /\ Len(edges) = 0
    /\ \E n \in Nodes : Depth(n) >= 3

\* The number of levels below n.
SubtreeHeight(n) ==
    Max({Depth(d) - Depth(n) : d \in {k \in Nodes : n \in SelfAndAncestors(k)}})

PositionOfNode(ordering, n) ==
    CHOOSE k \in 1..Len(ordering) : ordering[k] = [type |-> "node", id |-> n]

\* C17: the z of every node is minus its subtree height; the z of a
\* container is smaller than the z of each node it contains, and the
\* container comes before that node in the published ordering.
C17_ContainersDrawnBeforeContents ==
    \A i \in 1..Len(published) :
        /\ \A n \in Nodes : published[i].nodes[n].z = -SubtreeHeight(n)
        /\ \A d \in Nodes : \A c \in SelfAndAncestors(d) \ {d} :
              /\ published[i].nodes[c].z < published[i].nodes[d].z
              /\ PositionOfNode(published[i].ordering, c)
                     < PositionOfNode(published[i].ordering, d)

\* A layout has been published in which a container three levels high is
\* listed, in the nodes array, after a node with a larger z.
C17_Witness ==
    /\ Len(published) >= 1
    /\ Len(edges) >= 1
    /\ \E a, b \in Nodes :
          /\ a < b
          /\ published[1].nodes[a].z > published[1].nodes[b].z
          /\ published[1].nodes[b].z <= -2

\* The points the solver gave the segment of edge e with sequence index k,
\* moved by the accumulated offset of the container that holds the segment.
AbsoluteSegmentPoints(e, k) ==
    LET pos == CHOOSE q \in SegmentsOf(e) : SegmentAt(q).index = k
        off == AccumulatedOffset(pos[1])
        sec == elkSection(SegmentAt(pos))
        move(pt) == [x |-> pt.x + off.x, y |-> pt.y + off.y]
    IN  <<move(sec.startPoint)>>
        \o [j \in 1..Len(sec.bendPoints) |-> move(sec.bendPoints[j])]
        \o <<move(sec.endPoint)>>

\* The points of segments k .. n-1 of edge e, the first point of each dropped.
RECURSIVE LaterPoints(_, _, _)
LaterPoints(e, k, n) ==
    IF k >= n THEN <<>>
    ELSE Tail(AbsoluteSegmentPoints(e, k)) \o LaterPoints(e, k + 1, n)

RECURSIVE SumOfPointCounts(_, _, _)
SumOfPointCounts(e, k, n) ==
    IF k >= n THEN 0
    ELSE Len(AbsoluteSegmentPoints(e, k)) + SumOfPointCounts(e, k + 1, n)

\* C18: the published polyline of an edge is the points of its segments in
\* ascending sequence index, each moved by the accumulated offset of the
\* container that owns the segment, without the first point of every segment
\* after the first; it starts at the first point of segment 0, ends at the
\* last point of the last segment and has (sum of point counts) - (n - 1)
\* points.
C18_PolylineIsSegmentsInIndexOrder ==
    call.status = "published" =>
        \A e \in 1..Len(edges) :
            LET n == NumSegments(e)
                points == published[Len(published)].edges[e].points
            IN  /\ points = <<AbsoluteSegmentPoints(e, 0)[1]>>
                            \o Tail(AbsoluteSegmentPoints(e, 0))
                            \o LaterPoints(e, 1, n)
                /\ points[1] = AbsoluteSegmentPoints(e, 0)[1]
                /\ points[Len(points)] =
                       AbsoluteSegmentPoints(e, n - 1)[Len(AbsoluteSegmentPoints(e, n - 1))]
                /\ Len(points) = SumOfPointCounts(e, 0, n) - (n - 1)

\* The polyline of an edge of three segments, held by three different
\* containers, has been published.
C18_Witness ==
    /\ call.status = "published"
    /\ \E e \in 1..Len(edges) :
          /\ NumSegments(e) >= 3
          /\ Cardinality({pos[1] : pos \in SegmentsOf(e)}) >= 3

\* -----------------------------------------------------------------------
\* Properties of the creation of the loop (SpecLoop).
\* -----------------------------------------------------------------------

\* Every leaf holds the provisional size componentDidMount gives it
\* (events.js lines 650-655): the initial width and no height.
AllLeavesProvisional(nodes) ==
    \A n \in Leaves :
        nodes[n] = [width |-> Num(kNodeInitialWidth), height |-> NoValue]

\* C19 (as the specification states it): on creation, with every leaf size
\* unmeasured, the loop goes directly to solving: once componentDidMount has
\* run, a first solve has been issued with the provisional sizes, before any
\* size report.
C19_SolveIssuedOnCreation ==
    lastEvent.op = "componentDidMount" =>
        /\ solveCount = 1
        /\ \E solve \in inflight : AllLeavesProvisional(solve.nodes)

\* C19 (amended): on creation the loop stores the provisional sizes with
\* shouldLayout false and issues no solve; the first solve is issued by an
\* accepted size report, and only by one that leaves every leaf with a
\* measured, non-zero height.
C19_NoSolveOnCreation ==
    [][/\ (phase = "constructed" /\ phase' = "mounted") =>
              /\ solveCount' = 0
              /\ inflight' = {}
              /\ ~state'.shouldLayout
              /\ AllLeavesProvisional(state'.nodes)
       /\ (solveCount = 0 /\ solveCount' = 1) =>
              /\ lastEvent' = [op |-> "_onNodeResize", ignored |-> "no"]
              /\ \A n \in Leaves : Truthy(state'.nodes[n].height)
              /\ inflight' = {[id |-> 1, nodes |-> state'.nodes]}]_vars

\* The first solve has just been issued, by the size report that measured the
\* last leaf.
C19_Witness ==
    /\ solveCount = 1
    /\ lastEvent = [op |-> "_onNodeResize", ignored |-> "no"]
    /\ inflight = {[id |-> 1, nodes |-> state.nodes]}
    /\ state.geometry = UnlaidGeometry

\* -----------------------------------------------------------------------
\* Properties of the settling of the loop (SpecLoopFair).
\* -----------------------------------------------------------------------

\* No solve is outstanding and none is asked for.
Settled == inflight = {} /\ ~state.shouldLayout

\* Every leaf has reported a size.
AllLeavesReported ==
    /\ phase # "constructed"
    /\ \A n \in Leaves : state.nodes[n].height # NoValue

\* A step in which a size report beyond the tolerance is accepted.
AcceptedReport == lastEvent' = [op |-> "_onNodeResize", ignored |-> "no"]

\* The component stays mounted and no solver call fails.
SolverCallsComplete ==
    /\ [](phase # "unmounted")
    /\ [](lastEvent.op # "layoutError")

\* Once every leaf has reported and reports stay within the tolerance, the
\* loop settles for good.
EventuallySettles ==
    (SolverCallsComplete /\ <>AllLeavesReported /\ <>[][~AcceptedReport]_vars)
        => <>[]Settled

\* A settled loop is only unsettled by an accepted report.
StaysSettled == [][(Settled /\ ~AcceptedReport) => Settled']_vars

\* An accepted report, once every leaf has reported, leads to a completed
\* solve whose callback publishes.
AcceptedChangeIsPublished ==
    SolverCallsComplete =>
        ((lastEvent = [op |-> "_onNodeResize", ignored |-> "no"] /\ AllLeavesReported)
            ~> lastEvent.op = "layoutCallback")

\* C20: if from some point on every size report is within the tolerance of
\* the stored size and every solver call completes, the loop eventually
\* reaches the settled state (no solve pending or outstanding, shouldLayout
\* false) and remains settled until a report beyond the tolerance arrives;
\* every accepted size change is followed by a completed solve that
\* publishes a new layout.
C20_LoopSettlesAndPublishes ==
    /\ EventuallySettles
    /\ StaysSettled
    /\ AcceptedChangeIsPublished

\* -----------------------------------------------------------------------
\* Properties of the interaction manager (SpecInteract).
\* -----------------------------------------------------------------------

\* The viewer satisfies the constraints the set has now.
belongsTo(v, setIdx) == satisfiesConstraints(v, interactionSets[setIdx].constraints)

\* C21: a constraint method called on an InteractionSet returns a new
\* InteractionSet with no subscriptions and leaves the constraints of the
\* original set unchanged, so that the viewers a handler of the original set
\* fires for stay the same (after A = all.withType(T) and B = A.withMeta(k, v),
\* A still holds every viewer of type T, tagged or not, and B only the tagged
\* ones).
C21_ConstraintMethodLeavesOriginalUnchanged ==
    [][(lastCall'.op = "filter" /\ Len(interactionSets') = Len(interactionSets) + 1) =>
          /\ interactionSets'[Len(interactionSets')].subscriptions = <<>>
          /\ interactionSets'[lastCall'.set].constraints
                 = interactionSets[lastCall'.set].constraints
          /\ \A v \in Viewers, setIdx \in 1..Len(interactionSets), newIdx \in 1..MaxSets :
                (setIdx = lastCall'.set /\ newIdx = Len(interactionSets) + 1) =>
                    /\ belongsTo(v, setIdx)' = belongsTo(v, setIdx)
                    /\ belongsTo(v, newIdx)'
                           = (belongsTo(v, setIdx) /\ satisfies(v, lastCall'.fn))]_vars

\* The number of times the publish recorded in lastCall invoked the handler
\* for the subscriber under the event name.
Invocations(eventName, handler, subscriber) ==
    Cardinality({i \in 1..Len(lastCall.invoked) :
                    lastCall.invoked[i] = handlerInvoked(eventName, handler, subscriber,
                                                         lastCall.publisher)})

\* C22: whenever an event is published, every handler subscribed under that
\* event name on an InteractionSet is invoked exactly once for each currently
\* registered viewer that satisfies the constraints of the set, whether the
\* viewer was registered before or after the set was created or the
\* subscription was added, and never for a viewer that is not registered.
C22_HandlerInvokedOncePerMatchingViewer ==
    lastCall.op = "publish" =>
        \A setIdx \in 1..Len(interactionSets) :
            \A k \in 1..Len(interactionSets[setIdx].subscriptions) :
                LET subscription == interactionSets[setIdx].subscriptions[k] IN
                subscription.eventName = lastCall.eventName =>
                    \A v \in Viewers :
                        Invocations(lastCall.eventName, subscription.handler, v)
                            = IF v \in viewers /\ belongsTo(v, setIdx) THEN 1 ELSE 0

\* -----------------------------------------------------------------------
\* Properties of the measuring phase of the loop (SpecLoop).
\* -----------------------------------------------------------------------

\* Some leaf has no measured height in the node state.
SomeLeafUnmeasured(nodes) == \E n \in Leaves : nodes[n].height = NoValue

\* C23: no solve is started while any leaf still lacks a measured height: a
\* size report that arrives before all leaves have been measured is recorded
\* in the node state without starting a solve, and a solve is only ever
\* started with a node state in which every leaf has a height.
C23_NoSolveWhileLeafUnmeasured ==
    [][/\ (lastEvent' = [op |-> "_onNodeResize", ignored |-> "no"]
              /\ SomeLeafUnmeasured(state'.nodes)) =>
              /\ solveCount' = solveCount
              /\ inflight' = inflight
              /\ state'.shouldLayout
              /\ \E n \in Leaves, m \in reports :
                    state'.nodes = [state.nodes EXCEPT
                                       ![n] = [width |-> Num(m[1]), height |-> Num(m[2])]]
       /\ solveCount' # solveCount =>
              /\ ~SomeLeafUnmeasured(state'.nodes)
              /\ \E solve \in inflight' \ inflight :
                    solve.nodes = state'.nodes]_vars

\* The first leaf has reported, the other has not, and no solve has been
\* started.
C23_Witness ==
    /\ lastEvent = [op |-> "_onNodeResize", ignored |-> "no"]
    /\ SomeLeafUnmeasured(state.nodes)
    /\ \E n \in Leaves : state.nodes[n].height # NoValue
    /\ state.shouldLayout
    /\ solveCount = 0

\* -----------------------------------------------------------------------
\* Properties of the steps of the slicing loop (SpecSlice).
\* -----------------------------------------------------------------------

\* The cursor pairs the while loop went through for edge e, in order.
CursorsOf(e) == sliceLog[e].cursors

\* The subtree height of the parent of a cursor, the root context counting
\* as taller than every node.
ParentHeight(n) ==
    IF getParent(n) = Root THEN MaxNodes + 1 ELSE getHierarchyHeight(getParent(n))

\* The k-th step of edge e moves the cursors as the claim says, and the
\* parents of the cursors it starts from are of equal height.
StepStart(e, k) == CursorsOf(e)[k][1]
StepEnd(e, k) == CursorsOf(e)[k][2]
IsTieStep(e, k) == ParentHeight(StepStart(e, k)) = ParentHeight(StepEnd(e, k))

\* A step with parents of different heights advances the cursor whose parent
\* is lower, and only that one.
LowerCursorAdvances(e, k) ==
    /\ ParentHeight(StepEnd(e, k)) < ParentHeight(StepStart(e, k)) =>
          CursorsOf(e)[k + 1] = <<StepStart(e, k), getParent(StepEnd(e, k))>>
    /\ ParentHeight(StepStart(e, k)) < ParentHeight(StepEnd(e, k)) =>
          CursorsOf(e)[k + 1] = <<getParent(StepStart(e, k)), StepEnd(e, k)>>

\* C24 (as the specification states it): in each non-closing step the cursor
\* whose parent has the smaller subtree height is replaced by its parent, the
\* root context counting as taller than every node; when the two parents
\* have equal height, both cursors are advanced in that same step.
C24_TieAdvancesBothCursors ==
    \A e \in EdgeIds :
        \A k \in 1..(Len(CursorsOf(e)) - 1) :
            /\ LowerCursorAdvances(e, k)
            /\ IsTieStep(e, k) =>
                  CursorsOf(e)[k + 1]
                      = <<getParent(StepStart(e, k)), getParent(StepEnd(e, k))>>

\* C24 (amended): in each non-closing step the cursor whose parent has the
\* smaller subtree height is replaced by its parent and one segment is
\* emitted, the root context counting as taller than every node; when the two
\* parents have equal height, only the cursor of the source side is advanced
\* in that step, and the cursor of the target side is advanced in the next
\* step. Every step emits one segment: the edge has one segment per step and
\* one for the closing.
C24_TieAdvancesStartThenEnd ==
    \A e \in EdgeIds :
        /\ NumSegments(e) = Len(CursorsOf(e))
        /\ \A k \in 1..(Len(CursorsOf(e)) - 1) :
              /\ getParent(StepStart(e, k)) # getParent(StepEnd(e, k))
              /\ LowerCursorAdvances(e, k)
              /\ IsTieStep(e, k) =>
                    /\ CursorsOf(e)[k + 1]
                           = <<getParent(StepStart(e, k)), StepEnd(e, k)>>
                    /\ k + 2 <= Len(CursorsOf(e))
                    /\ CursorsOf(e)[k + 2]
                           = <<getParent(StepStart(e, k)), getParent(StepEnd(e, k))>>

\* An edge with a step whose cursors have parents of equal height, and one
\* with a step that advances the target side alone.
C24_Witness ==
    /\ \E e \in EdgeIds : \E k \in 1..(Len(CursorsOf(e)) - 1) : IsTieStep(e, k)
    /\ \E e \in EdgeIds : \E k \in 1..(Len(CursorsOf(e)) - 1) :
          ParentHeight(StepEnd(e, k)) < ParentHeight(StepStart(e, k))

\* -----------------------------------------------------------------------
\* Properties of the port sides (SpecSliceSided).
\* -----------------------------------------------------------------------

\* The sides that follow the orientation of a container.
OrientationSides(orientation) ==
    IF orientation = "horizontal" THEN {"EAST", "WEST"} ELSE {"NORTH", "SOUTH"}

\* The side of the out port edge e created at its source, and of the in port
\* it created at its target: the first port the edge pushed there.
SourcePortSide(e) == outPorts[edges[e].startId][PortsBefore(e).out[edges[e].startId] + 1]
TargetPortSide(e) == inPorts[edges[e].endId][PortsBefore(e).in[edges[e].endId] + 1]

\* C25: the port created at the true source (resp. target) of an edge
\* carries the preferred exit (resp. entry) side of the edge when one is
\* supplied, and otherwise a side derived from the orientation of the
\* container that owns that node (east/west for a horizontal container,
\* north/south for a vertical one); every port has a defined side.
C25_EndpointPortsCarryASide ==
    /\ \A e \in EdgeIds :
          /\ edges[e].startSide # Undefined =>
                SourcePortSide(e) = sideMap(edges[e].startSide)
          /\ edges[e].startSide = Undefined =>
                SourcePortSide(e) \in
                    OrientationSides(getOrientation(getParent(edges[e].startId)))
          /\ edges[e].endSide # Undefined =>
                TargetPortSide(e) = sideMap(edges[e].endSide)
          /\ edges[e].endSide = Undefined =>
                TargetPortSide(e) \in
                    OrientationSides(getOrientation(getParent(edges[e].endId)))
    /\ \A n \in Nodes :
          /\ \A i \in 1..Len(outPorts[n]) : outPorts[n][i] # Undefined
          /\ \A i \in 1..Len(inPorts[n]) : inPorts[n][i] # Undefined

\* -----------------------------------------------------------------------
\* Properties of the upward walks (SpecWalk).
\* -----------------------------------------------------------------------

\* The node itself and the containers it lies in, the root context included.
AncestorsOrSelf(n) == {n} \cup ProperAncestors(n) \cup {Root}

\* The deepest node that is an ancestor-or-self of both, the root context
\* when the two lie in different root-level subtrees.
DeepestCommonAncestorOrSelf(a, b) ==
    CHOOSE c \in AncestorsOrSelf(a) \cap AncestorsOrSelf(b) :
        \A d \in AncestorsOrSelf(a) \cap AncestorsOrSelf(b) : Depth(d) <= Depth(c)

\* C26: for every pair of nodes of an acyclic hierarchy, the upward walk of
\* getCommonAncestor and of the ELKEdgeSegment constructor ends, and ends at
\* the deepest node that is an ancestor-or-self of both nodes (the root
\* context when they lie in different root-level subtrees): the walk only
\* goes up, so it has not gone past that node.
C26_WalkEndsAtLowestCommonAncestor ==
    walk.op = "walk" =>
        /\ walk.commonAncestor = DeepestCommonAncestorOrSelf(walk.nodeId1, walk.nodeId2)
        /\ walk.parentNodeId = DeepestCommonAncestorOrSelf(walk.nodeId1, walk.nodeId2)

\* A walk between two nodes of equal height at different depths, whose
\* lowest common ancestor is neither of them nor the root context.
C26_Witness ==
    /\ walk.op = "walk"
    /\ walk.commonAncestor # Root
    /\ walk.commonAncestor \notin {walk.nodeId1, walk.nodeId2}
    /\ Depth(walk.nodeId1) # Depth(walk.nodeId2)
    /\ getHierarchyHeight(walk.nodeId1) = getHierarchyHeight(walk.nodeId2)

\* -----------------------------------------------------------------------
\* Properties of the solver invocations of a pass (SpecLayout).
\* -----------------------------------------------------------------------

\* The containers of the hierarchy: the nodes with children and the root
\* context.
HierarchyContainers == {n \in Nodes : children(n) # {}} \cup {Root}

C28_SlicingLoopEndsBelowRoot ==
    \A e \in EdgeIds :
        /\ \A k \in 1..Len(CursorsOf(e)) :
              /\ CursorsOf(e)[k][1] \in Nodes
              /\ CursorsOf(e)[k][2] \in Nodes
        /\ Len(CursorsOf(e)) <= Depth(edges[e].startId) + Depth(edges[e].endId) - 1
        /\ getParent(CursorsOf(e)[Len(CursorsOf(e))][1])
               = getParent(CursorsOf(e)[Len(CursorsOf(e))][2])
        /\ NumSegments(e) >= 1

\* An edge from a node two levels into one of its containers, lifted twice,
\* and an edge from a node to itself.
C28_Witness ==
    /\ \E e \in EdgeIds :
          /\ edges[e].startId \in ProperAncestors(edges[e].endId)
          /\ Len(CursorsOf(e)) = 3
    /\ \E e \in EdgeIds : edges[e].startId = edges[e].endId

\* -----------------------------------------------------------------------
\* Properties of the ports the segments name (SpecSlice).
\* -----------------------------------------------------------------------

\* The port ids the segment at pos names.
PortsNamedBy(pos) == {SegmentAt(pos).sources, SegmentAt(pos).targets}

\* The port was pushed on its node while edge e was sliced: createElkNode
\* (lines 472-489) gives the node one port for every entry of its inPorts and
\* of its outPorts, with the index of the entry.
CreatedByEdge(port, e) ==
    /\ port.node \in Nodes
    /\ IF port.dir = "o"
       THEN /\ PortsBefore(e).out[port.node] <= port.portNum
            /\ port.portNum < PortsAfter(e).out[port.node]
       ELSE /\ PortsBefore(e).in[port.node] <= port.portNum
            /\ port.portNum < PortsAfter(e).in[port.node]

\* C29: after slicing any set of edges, every port id a segment names as its
\* source or target is a port created on that node in the same pass (its
\* index is below the final count of in ports or out ports of the node, and
\* it was pushed while the edge of the segment was sliced), and no port is
\* named by segments of two different edges.
C29_SegmentsNamePortsOfTheirEdge ==
    /\ \A e \in EdgeIds : \A pos \in SegmentsOf(e) : \A port \in PortsNamedBy(pos) :
          /\ port.portNum < (IF port.dir = "o" THEN portCounts.out[port.node]
                             ELSE portCounts.in[port.node])
          /\ CreatedByEdge(port, e)
    /\ \A e1 \in EdgeIds, e2 \in EdgeIds :
          e1 # e2 =>
              \A pos1 \in SegmentsOf(e1), pos2 \in SegmentsOf(e2) :
                  PortsNamedBy(pos1) \cap PortsNamedBy(pos2) = {}

\* Two edges sliced that both have ports on one node, the second with a port
\* on a node the first one left ports on.
C29_Witness ==
    /\ Len(edges) = 2
    /\ NumSegments(2) >= 2
    /\ \E n \in Nodes : NewOutPorts(1, n) >= 1 /\ NewOutPorts(2, n) >= 1
    /\ \E n \in Nodes : NewInPorts(1, n) >= 1 /\ NewInPorts(2, n) >= 1

\* -----------------------------------------------------------------------
\* Properties of overlapping solves (SpecLoopResolving).
\* -----------------------------------------------------------------------

\* Every leaf has an accepted size with a height that lets the layout run.
AllAcceptedMeasured == \A n \in Leaves : Truthy(accepted[n].height)

\* C30: once all outstanding solves have completed, the published layout and
\* the stored node sizes are those of the most recently accepted size
\* reports: the result of a solve that started earlier never overwrites that
\* of a solve that started later, and a size accepted while a solve was
\* outstanding is not lost when the result of that solve is applied.
C30_LatestAcceptedSizesArePublished ==
    (/\ phase = "mounted"
     /\ lastEvent.op = "layoutCallback"
     /\ inflight = {}
     /\ AllAcceptedMeasured) =>
        \A n \in Leaves :
            /\ state.nodes[n] = accepted[n]
            /\ state.geometry.kind = "laid"
            /\ state.geometry.of[n] = accepted[n]

====
